---- MODULE Spec2Model ----
(***************************************************************************)
(* Model of icons/create_icons.py: the icon generator of the BlueHawk API  *)
(* Key Finder extension.  One run of the script is a walk of main():       *)
(* the vector path (create_icons_from_svg) or the procedural path          *)
(* (create_icons_with_pil / create_hawk_icon_pil).  Successive runs share  *)
(* only the file system.                                                   *)
(***************************************************************************)
EXTENDS Integers, Sequences, FiniteSets

VARIABLES
    HAS_CAIROSVG,   \* module flag set by the import of cairosvg (lines 10-16)
    svgExists,      \* whether SCRIPT_DIR/icon.svg exists
    svgData,        \* identity of the content of icon.svg
    fs,             \* the output files: size -> content of icon{size}.png
    unwritable,     \* sizes whose output write raises in the current run
    pc,             \* position of the run in the script
    i,              \* index of the for loops over sizes
    k,              \* index of the next draw statement of create_hawk_icon_pil
    img,            \* the canvas of create_hawk_icon_pil
    success,        \* main's local: result of create_icons_from_svg
    out,            \* messages printed by the current run
    called,         \* functions entered by the current run
    raisedIn,       \* the call whose exception ended the current run
    fsStart,        \* the output files as the current run found them
    prevDone        \* whether the run before the current one completed

vars == <<HAS_CAIROSVG, svgExists, svgData, fs, unwritable, pc, i, k, img,
          success, out, called, raisedIn, fsStart, prevDone>>

\* Number of distinct contents icon.svg may have.
MaxSvg == 2

----------------------------------------------------------------------------
\* Helpers

Max(a, b) == IF a >= b THEN a ELSE b

\* sizes = [16, 48, 128] of both loops
sizes == <<16, 48, 128>>

Sizes == {sizes[j] : j \in 1..Len(sizes)}

\* int(n * s) with s = size / 128: size/128 is a dyadic rational, so the
\* float product is exact and int() is the floor of n*size/128.
Scale(n, size) == (n * size) \div 128

\* radius = int(size * 0.19)
radius(size) == (size * 19) \div 100

head_points(size) ==
    << <<Scale(85, size), Scale(30, size)>>,
       <<Scale(100, size), Scale(45, size)>>,
       <<Scale(90, size), Scale(55, size)>>,
       <<Scale(75, size), Scale(50, size)>>,
       <<Scale(65, size), Scale(40, size)>>,
       <<Scale(70, size), Scale(28, size)>> >>

body_points(size) ==
    << <<Scale(65, size), Scale(40, size)>>,
       <<Scale(50, size), Scale(55, size)>>,
       <<Scale(45, size), Scale(75, size)>>,
       <<Scale(55, size), Scale(90, size)>>,
       <<Scale(80, size), Scale(85, size)>>,
       <<Scale(90, size), Scale(70, size)>>,
       <<Scale(85, size), Scale(55, size)>>,
       <<Scale(75, size), Scale(50, size)>> >>

eye_x(size) == Scale(82, size)
eye_y(size) == Scale(38, size)

eye_r_unclamped(size) == Scale(4, size)
eye_r(size) == Max(2, Scale(4, size))

key_y(size) == Scale(95, size)
key_x(size) == Scale(25, size)
key_r(size) == Max(3, Scale(8, size))
key_w(size) == Max(2, Scale(3, size))

shaft_start(size) == key_x(size) + key_r(size)

shaft_end_short(size) == Scale(45, size)
shaft_end(size) == Scale(65, size)

tooth_w(size) == Max(2, Scale(3, size))
tooth_h(size) == Max(3, Scale(6, size))

\* One draw call: the primitive, its coordinates and its styling.
Prim(shape, box, points, fill, outline, width, rad) ==
    [shape |-> shape, box |-> box, points |-> points, fill |-> fill,
     outline |-> outline, width |-> width, radius |-> rad]

\* The draw call that create_hawk_icon_pil makes for each part of the icon.
Shape(name, size) ==
    CASE name = "background" ->
            Prim("rounded_rectangle", <<0, 0, size - 1, size - 1>>, <<>>,
                 "#1e3a5f", "", 0, radius(size))
      [] name = "head" ->
            Prim("polygon", <<>>, head_points(size), "#f59e0b", "", 0, 0)
      [] name = "body" ->
            Prim("polygon", <<>>, body_points(size), "#f59e0b", "", 0, 0)
      [] name = "eye" ->
            Prim("ellipse",
                 <<eye_x(size) - eye_r(size), eye_y(size) - eye_r(size),
                   eye_x(size) + eye_r(size), eye_y(size) + eye_r(size)>>,
                 <<>>, "#0d1b2a", "", 0, 0)
      [] name = "key_ring" ->
            Prim("ellipse",
                 <<key_x(size) - key_r(size), key_y(size) - key_r(size),
                   key_x(size) + key_r(size), key_y(size) + key_r(size)>>,
                 <<>>, "", "#22c55e", key_w(size), 0)
      [] name = "key_shaft" ->
            Prim("rectangle",
                 <<shaft_start(size), key_y(size) - key_w(size),
                   shaft_end(size), key_y(size) + key_w(size)>>,
                 <<>>, "#22c55e", "", 0, 0)
      [] name = "key_tooth_1" ->
            Prim("rectangle",
                 <<shaft_end(size) - tooth_w(size) * 3,
                   key_y(size) - key_w(size) - tooth_h(size),
                   shaft_end(size) - tooth_w(size) * 2,
                   key_y(size) - key_w(size)>>,
                 <<>>, "#22c55e", "", 0, 0)
      [] name = "key_tooth_2" ->
            Prim("rectangle",
                 <<shaft_end(size) - tooth_w(size),
                   key_y(size) - key_w(size) - tooth_h(size),
                   shaft_end(size),
                   key_y(size) - key_w(size)>>,
                 <<>>, "#22c55e", "", 0, 0)

DrawOrder_head_first ==
    <<"head", "background", "body", "eye", "key_ring", "key_shaft",
      "key_tooth_1", "key_tooth_2">>

\* The statement order of the draw calls in create_hawk_icon_pil.
DrawOrder ==
    <<"background", "head", "body", "eye", "key_ring", "key_shaft",
      "key_tooth_1", "key_tooth_2">>

\* Image.new('RGBA', (size, size), (0, 0, 0, 0)): nothing drawn yet.
NewImage(size) == [width |-> size, height |-> size, ops |-> <<>>]

NoImg == [width |-> 0, height |-> 0, ops |-> <<>>]

----------------------------------------------------------------------------
\* Files

File(kind, width, height, ops, from) ==
    [kind |-> kind, width |-> width, height |-> height, ops |-> ops,
     from |-> from]

Absent  == File("absent", 0, 0, <<>>, 0)
Stale   == File("stale", 0, 0, <<>>, 0)
Partial == File("partial", 0, 0, <<>>, 0)

svg2png_natural(data, output_width, output_height) ==
    File("svg", 128, 128, <<>>, data)

\* cairosvg.svg2png(url=svg_path, write_to=..., output_width, output_height):
\* the encoded rasterization of the vector file at the requested dimensions.
svg2png(data, output_width, output_height) ==
    File("svg", output_width, output_height, <<>>, data)

\* The PNG encoding of a canvas (icon.save(output_path, 'PNG')).
PngOf(image) == File("pil", image.width, image.height, image.ops, 0)

\* The whole of create_hawk_icon_pil(size).
RECURSIVE DrawAll(_, _, _)
DrawAll(image, size, n) ==
    IF n > Len(DrawOrder) THEN image
    ELSE DrawAll([image EXCEPT !.ops = Append(@, Shape(DrawOrder[n], size))],
                 size, n + 1)

create_hawk_icon_pil(size) == DrawAll(NewImage(size), size, 1)

Overwrite_append(old, new) ==
    IF old.kind = "absent" THEN new
    ELSE File("appended", new.width, new.height, new.ops, new.from)

\* Both writers open the target for writing, which replaces what was there.
Overwrite(old, new) == new

\* A write that raises may leave the target as it was, truncated, or removed.
FailedWrite(old) == {old, Partial, Absent}

----------------------------------------------------------------------------
\* Decisions of the control flow

UseVectorPath_always == TRUE

\* main: if HAS_CAIROSVG
UseVectorPath == HAS_CAIROSVG

SvgFound_never == FALSE

\* create_icons_from_svg: os.path.exists(svg_path)
SvgFound == svgExists

FallBack_never(s) == FALSE

FallBack_always(s) == TRUE

\* main: if not success
FallBack(s) == ~s

AfterRaise_caught(path) == IF path = "svg2png" THEN "svg_ret" ELSE "failed"

\* No try/except anywhere: an exception of a write ends the run.
AfterRaise(path) == "failed"

Msg(text, size) == [text |-> text, size |-> size]

----------------------------------------------------------------------------
\* Initial state: no run yet; the environment is arbitrary.

Init ==
    /\ HAS_CAIROSVG \in BOOLEAN
    /\ svgExists \in BOOLEAN
    /\ svgData \in 1..MaxSvg
    /\ fs \in [Sizes -> {Absent, Stale, Partial}]
    /\ unwritable = {}
    /\ pc = "idle"
    /\ i = 1
    /\ k = 1
    /\ img = NoImg
    /\ success = FALSE
    /\ out = <<>>
    /\ called = {}
    /\ raisedIn = ""
    /\ fsStart = fs
    /\ prevDone = FALSE

env == <<HAS_CAIROSVG, svgExists, svgData>>

\* The script is started: module import (lines 7-20) and the __main__ guard.
StartRun ==
    /\ pc \in {"idle", "done", "failed"}
    /\ \E u \in SUBSET Sizes : unwritable' = u
    /\ pc' = "main"
    /\ i' = 1
    /\ k' = 1
    /\ img' = NoImg
    /\ success' = FALSE
    /\ out' = IF HAS_CAIROSVG THEN <<>> ELSE <<Msg("cairosvg not available", 0)>>
    /\ called' = {}
    /\ raisedIn' = ""
    /\ fsStart' = fs
    /\ prevDone' = (pc = "done")
    /\ UNCHANGED <<env, fs>>

\* Between runs the environment may change: cairosvg is installed or
\* removed (read by the import, lines 11-15), icon.svg is created, deleted
\* or edited (read at lines 93-95 and 102-103).
ChangeEnv ==
    /\ pc \in {"idle", "done", "failed"}
    /\ \E h \in BOOLEAN, e \in BOOLEAN, d \in 1..MaxSvg :
          /\ <<h, e, d>> # env
          /\ HAS_CAIROSVG' = h
          /\ svgExists' = e
          /\ svgData' = d
    /\ pc' = "idle"
    /\ unwritable' = {}
    /\ i' = 1
    /\ k' = 1
    /\ img' = NoImg
    /\ success' = FALSE
    /\ out' = <<>>
    /\ called' = {}
    /\ raisedIn' = ""
    /\ fsStart' = fs
    /\ prevDone' = FALSE
    /\ UNCHANGED fs

\* main, lines 124-126 and 131-132: the banner and the capability branch.
Dispatch ==
    /\ pc = "main"
    /\ IF UseVectorPath
       THEN /\ pc' = "svg_exists"
            /\ called' = called \cup {"create_icons_from_svg"}
       ELSE /\ pc' = "pil_loop"
            /\ called' = called \cup {"create_icons_with_pil"}
    /\ out' = Append(out, Msg("Creating", 0))
    /\ i' = 1
    /\ UNCHANGED <<env, fs, unwritable, k, img, success, raisedIn, fsStart,
                   prevDone>>

\* create_icons_from_svg, lines 93-97: the existence check.
SvgExistsCheck ==
    /\ pc = "svg_exists"
    /\ called' = called \cup {"os.path.exists"}
    /\ IF SvgFound
       THEN /\ pc' = "svg_loop"
            /\ UNCHANGED <<success, out>>
       ELSE /\ pc' = "svg_ret"
            /\ success' = FALSE
            /\ out' = Append(out, Msg("SVG file not found", 0))
    /\ i' = 1
    /\ UNCHANGED <<env, fs, unwritable, k, img, raisedIn, fsStart, prevDone>>

\* create_icons_from_svg, lines 100-108: one iteration of the loop.
Svg2Png ==
    /\ pc = "svg_loop"
    /\ i <= Len(sizes)
    /\ called' = called \cup {"svg2png"}
    /\ LET size == sizes[i] IN
       IF size \in unwritable
       THEN /\ \E f \in FailedWrite(fs[size]) : fs' = [fs EXCEPT ![size] = f]
            /\ raisedIn' = "svg2png"
            /\ pc' = AfterRaise("svg2png")
            /\ UNCHANGED <<i, out>>
       ELSE /\ fs' = [fs EXCEPT ![size] =
                         Overwrite(@, svg2png(svgData, size, size))]
            /\ out' = Append(out, Msg("Created from SVG", size))
            /\ i' = i + 1
            /\ UNCHANGED <<pc, raisedIn>>
    /\ UNCHANGED <<env, unwritable, k, img, success, fsStart, prevDone>>

\* create_icons_from_svg, line 110, and main, line 127: return True.
SvgReturn ==
    /\ pc = "svg_loop"
    /\ i > Len(sizes)
    /\ success' = TRUE
    /\ pc' = "svg_ret"
    /\ UNCHANGED <<env, fs, unwritable, i, k, img, out, called, raisedIn,
                   fsStart, prevDone>>

\* main, lines 128-130 and 134: fall back, or finish.
AfterSvg ==
    /\ pc = "svg_ret"
    /\ IF FallBack(success)
       THEN /\ pc' = "pil_loop"
            /\ out' = Append(out, Msg("Falling back to PIL", 0))
            /\ called' = called \cup {"create_icons_with_pil"}
       ELSE /\ pc' = "done"
            /\ out' = Append(out, Msg("Done", 0))
            /\ UNCHANGED called
    /\ i' = 1
    /\ UNCHANGED <<env, fs, unwritable, k, img, success, raisedIn, fsStart,
                   prevDone>>

\* create_icons_with_pil, lines 115-116, and create_hawk_icon_pil, 24-25.
PilNew ==
    /\ pc = "pil_loop"
    /\ i <= Len(sizes)
    /\ called' = called \cup {"create_hawk_icon_pil"}
    /\ img' = NewImage(sizes[i])
    /\ k' = 1
    /\ pc' = "pil_draw"
    /\ UNCHANGED <<env, fs, unwritable, i, success, out, raisedIn, fsStart,
                   prevDone>>

\* create_hawk_icon_pil, lines 28-87: the next draw call.
DrawStep ==
    /\ pc = "pil_draw"
    /\ k <= Len(DrawOrder)
    /\ img' = [img EXCEPT !.ops = Append(@, Shape(DrawOrder[k], sizes[i]))]
    /\ k' = k + 1
    /\ UNCHANGED <<env, fs, unwritable, pc, i, success, out, called,
                   raisedIn, fsStart, prevDone>>

\* create_hawk_icon_pil, line 89, and create_icons_with_pil, lines 117-119.
Save ==
    /\ pc = "pil_draw"
    /\ k > Len(DrawOrder)
    /\ called' = called \cup {"save"}
    /\ LET size == sizes[i] IN
       IF size \in unwritable
       THEN /\ \E f \in FailedWrite(fs[size]) : fs' = [fs EXCEPT ![size] = f]
            /\ raisedIn' = "save"
            /\ pc' = AfterRaise("save")
            /\ UNCHANGED <<i, out>>
       ELSE /\ fs' = [fs EXCEPT ![size] = Overwrite(@, PngOf(img))]
            /\ out' = Append(out, Msg("Created using PIL", size))
            /\ i' = i + 1
            /\ pc' = "pil_loop"
            /\ UNCHANGED raisedIn
    /\ UNCHANGED <<env, unwritable, k, img, success, fsStart, prevDone>>

\* create_icons_with_pil, line 121, and main, line 134.
PilReturn ==
    /\ pc = "pil_loop"
    /\ i > Len(sizes)
    /\ pc' = "done"
    /\ out' = Append(out, Msg("Done", 0))
    /\ UNCHANGED <<env, fs, unwritable, i, k, img, success, called, raisedIn,
                   fsStart, prevDone>>

\* Every step of a run that has been started.
RunStep ==
    \/ Dispatch
    \/ SvgExistsCheck
    \/ Svg2Png
    \/ SvgReturn
    \/ AfterSvg
    \/ PilNew
    \/ DrawStep
    \/ Save
    \/ PilReturn

Next == StartRun \/ ChangeEnv \/ RunStep

Spec == Init /\ [][Next]_vars

\* A started script runs to its end: it is sequential and never waits.
FairSpec == Spec /\ WF_vars(RunStep)

----------------------------------------------------------------------------
\* Observations used by the properties

\* The sizes, in order, for which the current run printed `text`.
RECURSIVE CreatedSeq(_, _)
CreatedSeq(text, n) ==
    IF n = 0 THEN <<>>
    ELSE IF out[n].text = text
         THEN Append(CreatedSeq(text, n - 1), out[n].size)
         ELSE CreatedSeq(text, n - 1)

Created(text) == CreatedSeq(text, Len(out))

CreatedSet(text) == {out[n].size : n \in {m \in 1..Len(out) : out[m].text = text}}

Printed(text) == \E n \in 1..Len(out) : out[n].text = text

\* The canvases the run has in hand: the one being drawn, and every
\* procedurally drawn output file.
Canvases ==
    {c \in {img} : pc = "pil_draw"}
      \cup {[width |-> fs[s].width, height |-> fs[s].height, ops |-> fs[s].ops] :
               s \in {x \in Sizes : fs[x].kind = "pil"}}

HalfWidth(op)  == (op.box[3] - op.box[1]) \div 2
HalfHeight(op) == (op.box[4] - op.box[2]) \div 2

NoWriteFails == unwritable \cap Sizes = {}

----------------------------------------------------------------------------
\* Capability present, icon.svg missing.
C1_Case == HAS_CAIROSVG /\ ~svgExists

C1_Safe ==
    C1_Case =>
        /\ "svg2png" \notin called
        /\ CreatedSet("Created from SVG") = {}
        /\ (pc = "svg_ret" => ~success /\ fs = fsStart)
        /\ (pc = "done" =>
              /\ Printed("SVG file not found")
              /\ Printed("Falling back to PIL")
              /\ Created("Created using PIL") = <<16, 48, 128>>
              /\ \A s \in {16, 48, 128} :
                    /\ fs[s].kind = "pil"
                    /\ fs[s] = PngOf(create_hawk_icon_pil(s)))

\* C1: with the capability present and icon.svg missing, the vector path
\* writes nothing and reports failure, and the run (when no write raises)
\* ends in Done with all three files drawn procedurally.
C1_FallsBackToProcedural ==
    /\ []C1_Safe
    /\ [](pc = "main" /\ C1_Case /\ NoWriteFails => <>(pc = "done"))

C1_Witness ==
    /\ C1_Case
    /\ pc = "done"
    /\ Printed("Falling back to PIL")
    /\ \A s \in Sizes : fs[s].kind = "pil"

\* Capability absent.
C2_Safe ==
    ~HAS_CAIROSVG =>
        /\ called \cap {"create_icons_from_svg", "os.path.exists", "svg2png"} = {}
        /\ pc \notin {"svg_exists", "svg_loop", "svg_ret"}
        /\ (pc = "done" =>
              /\ Created("Created using PIL") = <<16, 48, 128>>
              /\ \A s \in {16, 48, 128} :
                    /\ fs[s].kind = "pil"
                    /\ fs[s] = PngOf(create_hawk_icon_pil(s)))

\* C2: without the capability the vector path is never entered and the
\* presence of icon.svg is never consulted; the run (when no write raises)
\* ends in Done with three procedurally drawn files, icon.svg or not.
C2_DirectlyProcedural ==
    /\ []C2_Safe
    /\ [](pc = "main" /\ ~HAS_CAIROSVG /\ NoWriteFails => <>(pc = "done"))

C2_Witness ==
    /\ ~HAS_CAIROSVG
    /\ svgExists
    /\ pc = "done"
    /\ \A s \in Sizes : fs[s].kind = "pil"

\* Capability present, icon.svg present.
C3_Case == HAS_CAIROSVG /\ svgExists

C3_Safe ==
    C3_Case =>
        /\ called \cap {"create_icons_with_pil", "create_hawk_icon_pil", "save"} = {}
        /\ pc \notin {"pil_loop", "pil_draw"}
        /\ (pc = "done" =>
              /\ Created("Created from SVG") = <<16, 48, 128>>
              /\ \A s \in {16, 48, 128} :
                    /\ fs[s].kind = "svg"
                    /\ fs[s].from = svgData)

\* C3: with the capability present, icon.svg present and no write raising,
\* all three files are rasterized from icon.svg and the procedural path is
\* never invoked in that run.
C3_VectorOnly ==
    /\ []C3_Safe
    /\ [](pc = "main" /\ C3_Case /\ NoWriteFails => <>(pc = "done"))

C3_Witness ==
    /\ C3_Case
    /\ pc = "done"
    /\ \A s \in Sizes : fs[s].kind = "svg" /\ fs[s].from = svgData

\* C4: whenever a run reaches Done, each of icon16.png, icon48.png and
\* icon128.png was written during that run and is size x size.
C4_DoneHasAllSizes ==
    pc = "done" =>
        \A s \in {16, 48, 128} :
            /\ s \in CreatedSet("Created from SVG") \cup CreatedSet("Created using PIL")
            /\ fs[s].kind \in {"svg", "pil"}
            /\ fs[s].width = s
            /\ fs[s].height = s

C4_Witness ==
    /\ pc = "done"
    /\ HAS_CAIROSVG
    /\ svgExists
    /\ fsStart[16].kind = "stale"
    /\ fs[16].width = 16
    /\ fs[128].height = 128

\* C5: a completed run that follows a completed run, in the same
\* environment, leaves the three files exactly as the first left them,
\* whatever the first run found.
C5_Idempotent ==
    (pc = "done" /\ prevDone) => fs = fsStart

C5_Witness ==
    /\ pc = "done"
    /\ prevDone
    /\ fs = fsStart
    /\ \A s \in Sizes : fs[s].kind \in {"svg", "pil"}

\* C6: every drawn eye has radius max(2, floor(4*size/128)) >= 2, every key
\* ring radius max(3, floor(8*size/128)) >= 3 and outline width
\* max(2, floor(3*size/128)) >= 2, every shaft half-height >= 2, every
\* tooth is >= 2 wide and >= 3 high, and no radius or width drawn is 0.
C6_ClampedMinimums ==
    \A c \in Canvases :
        \A n \in 1..Len(c.ops) :
            LET op == c.ops[n]
                name == DrawOrder[n]
                size == c.width
            IN  /\ name = "background" => op.radius > 0
                /\ name = "eye" =>
                      /\ HalfWidth(op) = Max(2, (4 * size) \div 128)
                      /\ HalfWidth(op) >= 2
                      /\ HalfHeight(op) >= 2
                /\ name = "key_ring" =>
                      /\ HalfWidth(op) = Max(3, (8 * size) \div 128)
                      /\ HalfWidth(op) >= 3
                      /\ HalfHeight(op) >= 3
                      /\ op.width = Max(2, (3 * size) \div 128)
                      /\ op.width >= 2
                /\ name = "key_shaft" =>
                      /\ HalfHeight(op) = Max(2, (3 * size) \div 128)
                      /\ HalfHeight(op) >= 2
                      /\ op.box[3] - op.box[1] > 0
                /\ name \in {"key_tooth_1", "key_tooth_2"} =>
                      /\ op.box[3] - op.box[1] >= 2
                      /\ op.box[4] - op.box[2] >= 3

C6_Witness ==
    /\ pc = "pil_draw"
    /\ img.width = 16
    /\ Len(img.ops) = 8
    /\ HalfWidth(img.ops[4]) = 2
    /\ HalfWidth(img.ops[5]) = 3

\* C7: a write that raises ends the run as failed: nothing further runs,
\* no fallback follows a failure of the vector path, the completion message
\* is not printed, and the run wrote exactly the sizes before the failing
\* one, in the order 16, 48, 128.
C7_WriteFailureIsFatal ==
    /\ raisedIn # "" => pc = "failed"
    /\ pc = "failed" =>
          /\ raisedIn \in {"svg2png", "save"}
          /\ ~ENABLED RunStep
          /\ ~Printed("Done")
          /\ raisedIn = "svg2png" =>
                /\ "create_icons_with_pil" \notin called
                /\ ~Printed("Falling back to PIL")
                /\ Created("Created using PIL") = <<>>
          /\ raisedIn = "save" => Created("Created from SVG") = <<>>
          /\ \E j \in 1..3 :
                LET order == <<16, 48, 128>>
                    done  == IF raisedIn = "svg2png"
                             THEN Created("Created from SVG")
                             ELSE Created("Created using PIL")
                IN  /\ order[j] \in unwritable
                    /\ done = SubSeq(order, 1, j - 1)
                    /\ \A m \in 1..3 :
                          /\ m < j => fs[order[m]].kind \in {"svg", "pil"}
                          /\ m > j => fs[order[m]] = fsStart[order[m]]

C7_Witness ==
    /\ pc = "failed"
    /\ raisedIn = "svg2png"
    /\ Created("Created from SVG") = <<16>>
    /\ fs[16].kind = "svg"
    /\ fs[128] = fsStart[128]

\* The primitives and colours of the icon, back to front.
C8_Kinds ==
    <<"rounded_rectangle", "polygon", "polygon", "ellipse", "ellipse",
      "rectangle", "rectangle", "rectangle">>

C8_Colours ==
    <<"#1e3a5f", "#f59e0b", "#f59e0b", "#0d1b2a", "#22c55e", "#22c55e",
      "#22c55e", "#22c55e">>

\* C8: every canvas starts transparent and size x size, and its draw calls
\* come in the order background, head, body, eye, key ring, key shaft, two
\* key teeth; the background is below every other shape, at every size.
C8_DrawOrder ==
    /\ (pc = "pil_draw" /\ k = 1) =>
          img = [width |-> sizes[i], height |-> sizes[i], ops |-> <<>>]
    /\ \A s \in Sizes : fs[s].kind = "pil" => Len(fs[s].ops) = 8
    /\ \A c \in Canvases :
          /\ c.width \in {16, 48, 128}
          /\ c.height = c.width
          /\ \A n \in 1..Len(c.ops) :
                LET op == c.ops[n] IN
                /\ op.shape = C8_Kinds[n]
                /\ (IF op.fill # "" THEN op.fill ELSE op.outline) = C8_Colours[n]
                /\ op.shape = "rounded_rectangle" => n = 1
                /\ n = 2 => Len(op.points) = 6
                /\ n = 3 => Len(op.points) = 8
                /\ n = 5 => op.fill = "" /\ op.width > 0
                /\ n = 6 => (op.box[4] - op.box[2]) = 2 * c.ops[5].width
                /\ n = 7 => op.box[4] = c.ops[6].box[2]
                /\ n = 8 => /\ op.box[4] = c.ops[6].box[2]
                            /\ op.box[3] = c.ops[6].box[3]
                            /\ c.ops[7].box[3] < op.box[1]

C8_Witness ==
    /\ pc = "pil_draw"
    /\ img.width = 48
    /\ Len(img.ops) = 8
    /\ img.ops[1].shape = "rounded_rectangle"
    /\ fs[16].kind = "pil"

\* C9: every box handed to a draw call is well-formed and inside the
\* canvas, as is every polygon vertex; in particular the key shaft starts
\* no later than it ends.
C9_BoxesWellFormed ==
    \A c \in Canvases :
        \A n \in 1..Len(c.ops) :
            LET op == c.ops[n]
                inside(v) == 0 <= v /\ v <= c.width - 1
            IN  /\ op.box # <<>> =>
                      /\ op.box[1] <= op.box[3]
                      /\ op.box[2] <= op.box[4]
                      /\ \A m \in 1..4 : inside(op.box[m])
                /\ \A m \in 1..Len(op.points) :
                      inside(op.points[m][1]) /\ inside(op.points[m][2])
                /\ op.shape # "polygon" => op.box # <<>>
                /\ op.shape = "polygon" => op.points # <<>>

C9_Witness ==
    /\ pc = "pil_draw"
    /\ img.width = 16
    /\ Len(img.ops) = 8
    /\ img.ops[6].box[1] = 6
    /\ img.ops[6].box[3] = 8

\* C10: a run that reaches Done has all three files from one path, and
\* the procedural path never runs once the vector path has written a file.
C10_OnePathPerRun ==
    /\ pc = "done" =>
          /\ \A s, t \in Sizes : fs[s].kind = fs[t].kind
          /\ \A s \in Sizes : fs[s].kind \in {"svg", "pil"}
          /\ \/ Created("Created from SVG") = <<>>
             \/ Created("Created using PIL") = <<>>
    /\ "create_icons_with_pil" \in called => Created("Created from SVG") = <<>>
    /\ \A s \in Sizes :
          s \in CreatedSet("Created from SVG") => fs[s].kind = "svg"

C10_Witness ==
    /\ pc = "done"
    /\ \A s \in Sizes : fsStart[s].kind = "svg"
    /\ Created("Created using PIL") = <<16, 48, 128>>
    /\ \A s \in Sizes : fs[s].kind = "pil"

====
